---- MODULE Spec2Model ----
(***************************************************************************)
(* Habit tracker: state normalisation, persistence, streak computation and *)
(* the event handlers of the modular build (state.js, events.js,           *)
(* render.js) and of the single-file build.                                *)
(*                                                                         *)
(* JavaScript values are tagged records.  A string VALUE is a sequence of  *)
(* one-character strings, so that trim() and String() are computed; a      *)
(* property KEY is a TLA+ string.  Objects are functions from keys to      *)
(* values (the insertion order of keys is not modelled); arrays are        *)
(* sequences.                                                              *)
(***************************************************************************)
EXTENDS Integers, Sequences, FiniteSets, TLC

VARIABLES
    state,      \* state.js `state`: the in-memory AppState (a JS value)
    storage,    \* localStorage entry under STORAGE_KEY (a text, or absent)
    entropy,    \* number of draws made from crypto.randomUUID / Date.now
    hasCrypto,  \* whether crypto.randomUUID exists in this browser
    writable,   \* whether localStorage.setItem succeeds in this session
                \* (FALSE: storage disabled, or its quota exhausted)
    today,      \* the local calendar date that new Date() reads
    weekKeys,   \* state.js `weekKeys`
    pending,    \* number of imports suspended at `await file.text()`
    op,         \* the last handler that ran and how it ended
    arg,        \* harness: the argument handed to a pure function
    res,        \* harness: what the pure function returned
    pc          \* harness / handler position

vars == <<state, storage, entropy, hasCrypto, writable, today, weekKeys, pending, op, arg, res, pc>>

-----------------------------------------------------------------------------
(* JavaScript values *)

Undef == [t |-> "undefined"]
Null == [t |-> "null"]
Bool(b) == [t |-> "boolean", b |-> b]
Num(n) == [t |-> "number", n |-> n]
\* The number Infinity (what JSON.parse yields for a literal such as 1e400).
Infinity == [t |-> "infinity"]
Str(s) == [t |-> "string", s |-> s]
Arr(a) == [t |-> "array", a |-> a]
Obj(o) == [t |-> "object", o |-> o]

EmptyObj == Obj(<< >>)

\* A sequence, and a key-value mapping, given by a rule: written so that the
\* elements are computed once, when the value is built.
SeqOf(f) == f \o << >>
MapOf(f) == f @@ << >>

\* typeof v === "object" (null is excluded by the callers' truthiness test)
IsObjectLike(v) == v.t \in {"object", "array"}

\* Array.isArray(v)
IsArray(v) == v.t = "array"

\* ToBoolean(v)
Truthy(v) ==
    CASE v.t = "undefined" -> FALSE
      [] v.t = "null" -> FALSE
      [] v.t = "boolean" -> v.b
      [] v.t = "number" -> v.n # 0
      [] v.t = "string" -> v.s # << >>
      [] OTHER -> TRUE

\* v[key] for a key that no prototype defines (id, name, log, habits, a date
\* key): an own property of a plain object, undefined on anything else.
Get(v, key) ==
    IF v.t = "object" /\ key \in DOMAIN v.o THEN v.o[key] ELSE Undef

-----------------------------------------------------------------------------
(* Strings *)

\* The characters of a TLA+ string literal are written out one by one.
sEmpty == << >>
sUntitled == <<"U","n","t","i","t","l","e","d"," ","h","a","b","i","t">>
sObjectObject == <<"[","o","b","j","e","c","t"," ","O","b","j","e","c","t","]">>
sInfinity == <<"I","n","f","i","n","i","t","y">>
sTrue == <<"t","r","u","e">>
sFalse == <<"f","a","l","s","e">>
sNull == <<"n","u","l","l">>
sUndefined == <<"u","n","d","e","f","i","n","e","d">>
sUuid == <<"u","u","i","d","-">>
sHabit == <<"h","a","b","i","t","-">>

IsWhiteSpace(c) == c \in {" ", "\t", "\n"}

RECURSIVE TrimStart(_)
TrimStart(s) ==
    IF s = << >> THEN s
    ELSE IF IsWhiteSpace(Head(s)) THEN TrimStart(Tail(s)) ELSE s

RECURSIVE TrimEnd(_)
TrimEnd(s) ==
    IF s = << >> THEN s
    ELSE IF IsWhiteSpace(s[Len(s)]) THEN TrimEnd(SubSeq(s, 1, Len(s) - 1)) ELSE s

\* String.prototype.trim
Trim(s) == TrimEnd(TrimStart(s))

\* Decimal digits of a natural number, as characters.
RECURSIVE Digits(_)
Digits(n) ==
    IF n < 10 THEN <<ToString(n)>> ELSE Digits(n \div 10) \o <<ToString(n % 10)>>

\* A result that may be a raised exception instead of a value.
Ok(v) == [ok |-> TRUE, v |-> v]
Raised == [ok |-> FALSE]

\* String(v) (ToString of the language).  A plain object converts through
\* Object.prototype.toString unless it has an own "toString" property: an own
\* property of parsed JSON is never callable, valueOf then returns the object
\* itself, and the conversion raises a TypeError.  An array converts through
\* join(","), where null and undefined elements give the empty string.
RECURSIVE ToStringJS(_)
RECURSIVE JoinJS(_, _)
JoinJS(a, i) ==
    IF i > Len(a) THEN Ok(sEmpty)
    ELSE LET e == a[i]
             head == IF e.t \in {"null", "undefined"} THEN Ok(sEmpty)
                     ELSE ToStringJS(e)
             rest == JoinJS(a, i + 1)
         IN  IF ~head.ok \/ ~rest.ok THEN Raised
             ELSE IF i < Len(a) THEN Ok(head.v \o <<",">> \o rest.v)
             ELSE Ok(head.v)
ToStringJS(v) ==
    CASE v.t = "string" -> Ok(v.s)
      [] v.t = "number" -> Ok(IF v.n < 0 THEN <<"-">> \o Digits(0 - v.n) ELSE Digits(v.n))
      [] v.t = "infinity" -> Ok(sInfinity)
      [] v.t = "boolean" -> Ok(IF v.b THEN sTrue ELSE sFalse)
      [] v.t = "null" -> Ok(sNull)
      [] v.t = "undefined" -> Ok(sUndefined)
      [] v.t = "array" -> JoinJS(v.a, 1)
      [] v.t = "object" -> IF "toString" \in DOMAIN v.o THEN Raised
                           ELSE Ok(sObjectObject)

-----------------------------------------------------------------------------
(* state.js: ids, normalizeState *)

\* The id expression shared by newHabit and normalizeState: a random UUID
\* when crypto.randomUUID exists, otherwise "habit-<Date.now()>-<suffix>".
\* Draw number `draw` of the random source (of the clock) with suffix `suffix`
\* stands for a value that no other draw yields.
FreshId(crypto, draw, suffix) ==
    IF crypto THEN sUuid \o Digits(draw) \o <<"-">> \o suffix
    ELSE sHabit \o Digits(draw) \o <<"-">> \o suffix

\* The habit object built from entry h, idStr being the outcome of
\* `h && h.id && String(h.id)` (the empty string when h or h.id is falsy).
HabitWith(h, idStr, index, crypto, draw) ==
    LET nameIn == Get(h, "name")
        logIn == Get(h, "log")
        name == IF Truthy(h) /\ nameIn.t = "string" /\ Trim(nameIn.s) # sEmpty
                THEN Trim(nameIn.s) ELSE sUntitled
        log == IF Truthy(h) /\ Truthy(logIn) /\ IsObjectLike(logIn) /\ ~IsArray(logIn)
               THEN Obj(logIn.o) ELSE EmptyObj
    IN  IF ~idStr.ok THEN [ok |-> FALSE, drew |-> FALSE]
        ELSE [ok |-> TRUE,
              v |-> Obj([id |-> Str(IF idStr.v # sEmpty THEN idStr.v
                                        ELSE FreshId(crypto, draw, Digits(index))),
                         name |-> Str(name),
                         log |-> log]),
              drew |-> idStr.v = sEmpty]

\* NormalizeHabit changed to generate an id for every entry, dropping the
\* `h.id && String(h.id)` alternative.
NormalizeHabit_FreshIdAlways(h, index, crypto, draw) ==
    LET nameIn == Get(h, "name")
        logIn == Get(h, "log")
        name == IF Truthy(h) /\ nameIn.t = "string" /\ Trim(nameIn.s) # sEmpty
                THEN Trim(nameIn.s) ELSE sUntitled
        log == IF Truthy(h) /\ Truthy(logIn) /\ IsObjectLike(logIn) /\ ~IsArray(logIn)
               THEN Obj(logIn.o) ELSE EmptyObj
    IN  [ok |-> TRUE,
         v |-> Obj([id |-> Str(FreshId(crypto, draw, Digits(index))),
                    name |-> Str(name),
                    log |-> log]),
         drew |-> TRUE]

\* One element of habitsInput.map((h, index) => ...): index counts from 0.
\* [ok, v, drew]: the habit, whether its id was generated; not ok when
\* String(h.id) raises.
NormalizeHabit(h, index, crypto, draw) ==
    HabitWith(h, IF Truthy(h) /\ Truthy(Get(h, "id")) THEN ToStringJS(Get(h, "id"))
                 ELSE Ok(sEmpty),
              index, crypto, draw)

\* return { habits }, `mapped` being the outcomes of the map callback: the
\* first one that raised ends normalizeState.
StateWith(mapped) ==
    IF \E i \in 1..Len(mapped) : ~mapped[i].ok
    THEN [ok |-> FALSE, drew |-> FALSE]
    ELSE [ok |-> TRUE,
          v |-> Obj([habits |-> Arr(SeqOf([i \in 1..Len(mapped) |-> mapped[i].v]))]),
          drew |-> \E i \in 1..Len(mapped) : mapped[i].drew]

\* normalizeState changed to leave out the entries that are not objects
\* before mapping.
normalizeState_SkipsNonObjects(source, crypto, draw) ==
    LET raw == IF Truthy(source) /\ IsObjectLike(source) THEN source ELSE EmptyObj
        habitsIn == Get(raw, "habits")
        habitsInput == IF IsArray(habitsIn)
                       THEN SelectSeq(habitsIn.a, LAMBDA h : h.t = "object")
                       ELSE << >>
    IN  StateWith(SeqOf([i \in 1..Len(habitsInput) |->
                            NormalizeHabit(habitsInput[i], i - 1, crypto, draw)]))

\* normalizeState(source): [ok, v, drew].  `drew` tells whether an id was
\* generated, that is whether a draw of the random source was used up.
normalizeState(source, crypto, draw) ==
    LET raw == IF Truthy(source) /\ IsObjectLike(source) THEN source ELSE EmptyObj
        habitsIn == Get(raw, "habits")
        habitsInput == IF IsArray(habitsIn) THEN habitsIn.a ELSE << >>
    IN  StateWith(SeqOf([i \in 1..Len(habitsInput) |->
                            NormalizeHabit(habitsInput[i], i - 1, crypto, draw)]))

-----------------------------------------------------------------------------
(* Dates.  A Date is kept as its local calendar date [year, month, date],  *)
(* month counted from 0 as getMonth() does; the time of day and the time   *)
(* zone are not modelled.  Day arithmetic follows the language's MakeDay,  *)
(* YearFromTime, MonthFromTime and DateFromTime.                           *)

DateOf(y, m, d) == [year |-> y, month |-> m, date |-> d]

IsLeapYear(y) == (y % 4 = 0 /\ y % 100 # 0) \/ y % 400 = 0

\* Number of the first day of year y, counted from 1 January 1970.
DayFromYear(y) ==
    365 * (y - 1970) + ((y - 1969) \div 4) - ((y - 1901) \div 100)
        + ((y - 1601) \div 400)

\* Days of year y before month m (0-based; m = 12 gives the year's length).
DaysBeforeMonth(y, m) ==
    <<0, 31, 59, 90, 120, 151, 181, 212, 243, 273, 304, 334, 365>>[m + 1]
        + (IF m >= 2 /\ IsLeapYear(y) THEN 1 ELSE 0)

\* MakeDay(year, month, date) for a month in 0..11 and any integer date.
MakeDay(y, m, d) == DayFromYear(y) + DaysBeforeMonth(y, m) + d - 1

\* The calendar date of day number n.
DateOfDay(n) ==
    LET y == CHOOSE c \in ((n \div 366) + 1969)..((n \div 365) + 1971) :
                 DayFromYear(c) <= n /\ n < DayFromYear(c + 1)
        inYear == n - DayFromYear(y)
        m == CHOOSE c \in 0..11 :
                 DaysBeforeMonth(y, c) <= inYear /\ inYear < DaysBeforeMonth(y, c + 1)
    IN  DateOf(y, m, inYear - DaysBeforeMonth(y, m) + 1)

\* d = new Date(date); d.setDate(dayOfMonth): dayOfMonth may be 0 or negative.
SetDate(date, dayOfMonth) == DateOfDay(MakeDay(date.year, date.month, dayOfMonth))

\* String.prototype.padStart(2, "0") on a property-key string.
PadStart2(s) == IF Len(s) < 2 THEN "0" \o s ELSE s

\* toKey(date): "YYYY-MM-DD"
toKey(date) ==
    ToString(date.year) \o "-" \o PadStart2(ToString(date.month + 1)) \o "-"
        \o PadStart2(ToString(date.date))

\* todayKey()
todayKey(now) == toKey(now)

\* buildWeek(): the keys of offsets 6, 5, ..., 0 before today, in that order.
buildWeek(now) ==
    [n \in 1..7 |-> toKey(SetDate(now, now.date - (7 - n)))]

\* The date of the page load in the runs explored.
Today0 == DateOf(2026, 10, 2)

-----------------------------------------------------------------------------
(* JSON text.  A text is the item's content: none (getItem returns null),  *)
(* the empty string, a text that is not JSON, or a JSON document.  A       *)
(* document is kept as its syntax tree; a numeric literal is an integer or *)
(* one beyond the double range ("big", such as 1e400).                     *)

NoItem == [x |-> "none"]
EmptyText == [x |-> "empty"]
Garbage == [x |-> "garbage"]
JsonText(doc) == [x |-> "json", doc |-> doc]

JNull == [j |-> "null"]
JBool(b) == [j |-> "bool", b |-> b]
JNum(n) == [j |-> "num", n |-> n]
JBig == [j |-> "big"]
JStr(s) == [j |-> "str", s |-> s]
JArr(e) == [j |-> "arr", e |-> e]
JObj(m) == [j |-> "obj", m |-> m]

\* JSON.stringify of a value inside a document: a non-finite number is
\* written as null, an undefined array element as null, and a property whose
\* value is undefined is left out.
RECURSIVE Serialize(_)
Serialize(v) ==
    CASE v.t \in {"null", "undefined", "infinity"} -> JNull
      [] v.t = "boolean" -> JBool(v.b)
      [] v.t = "number" -> JNum(v.n)
      [] v.t = "string" -> JStr(v.s)
      [] v.t = "array" -> JArr(SeqOf([i \in 1..Len(v.a) |-> Serialize(v.a[i])]))
      [] v.t = "object" ->
            JObj(MapOf([k \in {q \in DOMAIN v.o : v.o[q].t # "undefined"} |->
                          Serialize(v.o[k])]))

\* JSON.stringify(state)
Stringify(v) == JsonText(Serialize(v))

\* The value a document denotes: a literal beyond the double range reads as
\* Infinity.
RECURSIVE Deserialize(_)
Deserialize(d) ==
    CASE d.j = "null" -> Null
      [] d.j = "bool" -> Bool(d.b)
      [] d.j = "num" -> Num(d.n)
      [] d.j = "big" -> Infinity
      [] d.j = "str" -> Str(d.s)
      [] d.j = "arr" -> Arr(SeqOf([i \in 1..Len(d.e) |-> Deserialize(d.e[i])]))
      [] d.j = "obj" -> Obj(MapOf([k \in DOMAIN d.m |-> Deserialize(d.m[k])]))

\* JSON.parse(text): the value, or Raised (SyntaxError) for a text that is
\* not JSON, the empty string included.
Parse(text) ==
    IF text.x = "json" THEN Ok(Deserialize(text.doc)) ELSE Raised

-----------------------------------------------------------------------------
(* state.js: loadState, saveState *)

EmptyState == Obj([habits |-> Arr(<< >>)])

\* The end of loadState's try block, n being the outcome of normalizeState.
Loaded(n) ==
    IF n.ok THEN [v |-> n.v, drew |-> n.drew] ELSE [v |-> EmptyState, drew |-> FALSE]

\* loadState changed to `return parsed` in place of
\* `return normalizeState(parsed)`.
loadState_ReturnsParsed(item, crypto, draw) ==
    IF item.x \in {"none", "empty"} THEN [v |-> EmptyState, drew |-> FALSE]
    ELSE IF ~Parse(item).ok THEN [v |-> EmptyState, drew |-> FALSE]
    ELSE [v |-> Parse(item).v, drew |-> FALSE]

\* loadState(): [v, drew].  getItem yields null for no item; !raw also holds
\* for the empty string.  Whatever is raised inside the try (by JSON.parse
\* or by normalizeState) is caught and the empty state returned.
loadState(item, crypto, draw) ==
    IF item.x \in {"none", "empty"} THEN [v |-> EmptyState, drew |-> FALSE]
    ELSE IF ~Parse(item).ok THEN [v |-> EmptyState, drew |-> FALSE]
    ELSE Loaded(normalizeState(Parse(item).v, crypto, draw))

\* state = <normalized>; localStorage.setItem(STORAGE_KEY, JSON.stringify(state)),
\* n being the outcome of normalizeState.
Assigned(n, cur, item, canWrite) ==
    IF ~n.ok
    THEN [state |-> cur, item |-> item, drew |-> FALSE, raised |-> TRUE, err |-> "type"]
    ELSE IF ~canWrite
         THEN [state |-> n.v, item |-> item, drew |-> n.drew, raised |-> TRUE,
               err |-> "storage"]
         ELSE [state |-> n.v, item |-> Stringify(n.v), drew |-> n.drew,
               raised |-> FALSE, err |-> "none"]

\* saveState(nextState) with the in-memory state `cur` and the stored item
\* `item`: [state, item, drew, raised, err].  normalizeState may raise before the
\* assignment, leaving both untouched; setItem may raise (quota exceeded,
\* storage disabled: canWrite = FALSE) after the assignment to `state`.
saveState(nextState, cur, item, crypto, draw, canWrite) ==
    Assigned(normalizeState(nextState, crypto, draw), cur, item, canWrite)

-----------------------------------------------------------------------------
(* What a handler leaves behind.  name: the handler; result: "ok" (ran to  *)
(* its end after a save), "noop" (returned early), "raised" (ended by an   *)
(* uncaught exception), "failed" (the import's catch block ran: "Import    *)
(* failed"); direct: whether it wrote to the current state object, one of  *)
(* its habits or logs in place, outside saveState; err: what was raised;   *)
(* file: the text an import read (NoItem for the other handlers).          *)

Outcome(name, result, direct, err) ==
    [name |-> name, result |-> result, direct |-> direct, err |-> err, file |-> NoItem]

ImportOutcome(result, err, text) ==
    [name |-> "import", result |-> result, direct |-> FALSE, err |-> err, file |-> text]

NoOp == Outcome("none", "noop", FALSE, "none")

-----------------------------------------------------------------------------
(* The state store exercised as an interface: inputs for normalizeState,   *)
(* saveState and loadState.                                                *)

MaxEntries == 2

sA == <<"a">>
sRun == <<"R","u","n">>
sRunPadded == <<" ","R","u","n"," ">>
sBlank == <<" "," ">>

Day1 == toKey(Today0)
Day0 == toKey(SetDate(Today0, Today0.date - 1))

\* An object with the given id, name and log; a field given as Undef is absent.
Entry(id, name, log) ==
    LET f == [k \in {"id", "name", "log"} |->
                 CASE k = "id" -> id [] k = "name" -> name [] k = "log" -> log]
    IN  Obj(MapOf([k \in {q \in {"id", "name", "log"} : f[q] # Undef} |-> f[k]]))

IdInputs ==
    {Undef, Null, Str(sEmpty), Str(sA), Num(0), Num(7), Bool(TRUE), Infinity,
     Arr(<< >>), Arr(<<Num(1), Null, Num(2)>>), EmptyObj, Obj("toString" :> Num(1))}

NameInputs ==
    {Undef, Null, Num(3), Str(sEmpty), Str(sBlank), Str(sRunPadded), Str(sRun)}

LogInputs ==
    {Undef, Null, Str(sA), Num(1), Arr(<<Bool(TRUE)>>), EmptyObj,
     Obj(Day1 :> Bool(TRUE)), Obj(Day1 :> Bool(FALSE) @@ Day0 :> Num(1)),
     Obj(Day1 :> Infinity), Obj(Day1 :> EmptyObj)}

EntryInputs ==
    {Undef, Null, Num(7), Str(sRun), Bool(TRUE), Arr(<< >>)}
    \cup {Entry(i, Str(sRun), EmptyObj) : i \in IdInputs}
    \cup {Entry(Str(sA), n, EmptyObj) : n \in NameInputs}
    \cup {Entry(Str(sA), Str(sRun), l) : l \in LogInputs}

SeqsUpTo(S, n) == UNION {[1..k -> S] : k \in 0..n}

Candidates ==
    {Undef, Null, Num(5), Str(sRun), Bool(TRUE), Arr(<< >>), EmptyObj,
     Obj("habits" :> Str(sRun)), Obj("habits" :> Null), Obj("habits" :> EmptyObj),
     Obj("name" :> Str(sRun))}
    \cup {Obj("habits" :> Arr(a)) : a \in SeqsUpTo(EntryInputs, MaxEntries)}

InitStore ==
    /\ arg \in Candidates
    /\ hasCrypto \in BOOLEAN
    /\ writable \in BOOLEAN
    /\ entropy = 0
    /\ storage = NoItem
    /\ state = loadState(NoItem, hasCrypto, 0).v
    /\ today = Today0
    /\ weekKeys = buildWeek(Today0)
    /\ pending = 0
    /\ op = NoOp
    /\ res = Raised
    /\ pc = "idle"

\* normalizeState(arg)
NormCall ==
    /\ pc = "idle"
    /\ LET n == normalizeState(arg, hasCrypto, entropy)
       IN  /\ res' = IF n.ok THEN Ok(n.v) ELSE Raised
           /\ entropy' = IF n.drew THEN entropy + 1 ELSE entropy
    /\ pc' = "normalized"
    /\ UNCHANGED <<state, storage, hasCrypto, writable, today, weekKeys, pending, op, arg>>

\* normalizeState(normalizeState(arg)): the first result is fed back
NormAgain ==
    /\ pc = "normalized"
    /\ res.ok
    /\ LET n == normalizeState(res.v, hasCrypto, entropy)
       IN  /\ res' = IF n.ok THEN Ok(n.v) ELSE Raised
           /\ entropy' = IF n.drew THEN entropy + 1 ELSE entropy
    /\ arg' = res.v
    /\ pc' = "renormalized"
    /\ UNCHANGED <<state, storage, hasCrypto, writable, today, weekKeys, pending, op>>

\* saveState(arg)
SaveCall ==
    /\ pc = "idle"
    /\ LET r == saveState(arg, state, storage, hasCrypto, entropy, writable)
       IN  /\ state' = r.state
           /\ storage' = r.item
           /\ entropy' = IF r.drew THEN entropy + 1 ELSE entropy
           /\ pc' = IF r.raised THEN "save-raised" ELSE "saved"
    /\ UNCHANGED <<hasCrypto, writable, today, weekKeys, pending, op, arg, res>>

\* loadState() after a saveState that returned
LoadCall ==
    /\ pc = "saved"
    /\ LET l == loadState(storage, hasCrypto, entropy)
       IN  /\ res' = Ok(l.v)
           /\ entropy' = IF l.drew THEN entropy + 1 ELSE entropy
    /\ pc' = "loaded"
    /\ UNCHANGED <<state, storage, hasCrypto, writable, today, weekKeys, pending, op, arg>>

NextStore == NormCall \/ NormAgain \/ SaveCall \/ LoadCall

SpecStore == InitStore /\ [][NextStore]_vars

-----------------------------------------------------------------------------
(* state.js: loadState on whatever the item under STORAGE_KEY may hold.    *)

\* Items a page load may find: none, the empty string, a text that is not
\* JSON, and the JSON texts of the candidates (a non-finite number is
\* written as a literal beyond the double range).
RECURSIVE TextOf(_)
TextOf(v) ==
    CASE v.t \in {"null", "undefined"} -> JNull
      [] v.t = "infinity" -> JBig
      [] v.t = "boolean" -> JBool(v.b)
      [] v.t = "number" -> JNum(v.n)
      [] v.t = "string" -> JStr(v.s)
      [] v.t = "array" -> JArr(SeqOf([i \in 1..Len(v.a) |-> TextOf(v.a[i])]))
      [] v.t = "object" -> JObj(MapOf([k \in DOMAIN v.o |-> TextOf(v.o[k])]))

LoadItems ==
    {NoItem, EmptyText, Garbage} \cup {JsonText(TextOf(c)) : c \in Candidates}

InitLoad ==
    /\ storage \in LoadItems
    /\ hasCrypto \in BOOLEAN
    /\ writable = TRUE
    /\ entropy = 0
    /\ state = EmptyState
    /\ today = Today0
    /\ weekKeys = buildWeek(Today0)
    /\ pending = 0
    /\ op = NoOp
    /\ arg = Undef
    /\ res = Raised
    /\ pc = "load:entry"

\* state = loadState(): the call returns a value in every case, and the
\* function contains no setItem.
LoadStored ==
    /\ pc = "load:entry"
    /\ LET l == loadState(storage, hasCrypto, entropy)
       IN  /\ res' = Ok(l.v)
           /\ state' = l.v
           /\ entropy' = IF l.drew THEN entropy + 1 ELSE entropy
    /\ pc' = "load:done"
    /\ UNCHANGED <<storage, hasCrypto, writable, today, weekKeys, pending, op, arg>>

NextLoad == LoadStored

SpecLoad == InitLoad /\ [][NextLoad]_vars

-----------------------------------------------------------------------------
(* state.js: computeStreak, one loop iteration per step.  arg is the habit, *)
(* res holds the loop variables i and streak.                              *)

StreakCap == 365
MaxRun == 400

\* A log whose entries for today, today-1, ..., today-(run-1) are `mark`,
\* whose entry for today-run is `gap` (absent when Undef), and that has, with
\* `older`, one more marked entry for today-(run+1).
RunLog(now, run, mark, gap, older) ==
    LET base == MakeDay(now.year, now.month, now.date)
        keyAt(j) == toKey(DateOfDay(base - j))
        marked == {keyAt(j) : j \in 0..(run - 1)}
                      \cup (IF older THEN {keyAt(run + 1)} ELSE {})
        gapKeys == IF gap = Undef THEN {} ELSE {keyAt(run)}
    IN  Obj(MapOf([k \in marked \cup gapKeys |-> IF k \in marked THEN mark ELSE gap]))

StreakDates == {Today0, DateOf(2024, 2, 1), DateOf(2026, 0, 1)}

ShortRuns == {0, 1, 2, 3, 7}
LongRuns == {StreakCap - 1, StreakCap, StreakCap + 1, MaxRun}
Marks == {Bool(TRUE), Num(1), Str(sA), Infinity, EmptyObj}
Gaps == {Undef, Bool(FALSE), Num(0), Null, Str(sEmpty)}

HabitWithLog(log) == Entry(Str(sA), Str(sRun), log)

StreakHabits(now) ==
    {Undef, Null, Num(0), Num(7), Obj("id" :> Str(sA)),
     HabitWithLog(Null), HabitWithLog(Arr(<<Bool(TRUE)>>)), HabitWithLog(Str(sRun)),
     HabitWithLog(Obj("2026-11-2" :> Bool(TRUE)))}
    \cup {HabitWithLog(RunLog(now, run, mark, gap, older)) :
             run \in ShortRuns, mark \in Marks, gap \in Gaps, older \in BOOLEAN}
    \cup {HabitWithLog(RunLog(now, run, Bool(TRUE), gap, FALSE)) :
             run \in LongRuns, gap \in {Undef, Bool(FALSE)}}

InitStreak ==
    /\ today \in StreakDates
    /\ arg \in StreakHabits(today)
    /\ res = [i |-> 0, streak |-> 0]
    /\ pc = "streak:entry"
    /\ hasCrypto = TRUE
    /\ writable = TRUE
    /\ entropy = 0
    /\ storage = NoItem
    /\ state = EmptyState
    /\ weekKeys = buildWeek(today)
    /\ pending = 0
    /\ op = NoOp

\* if (!habit || !habit.log) return 0; let streak = 0; ... i = 0
StreakEnter ==
    /\ pc = "streak:entry"
    /\ pc' = IF ~Truthy(arg) \/ ~Truthy(Get(arg, "log")) THEN "streak:done"
             ELSE "streak:loop"
    /\ res' = [i |-> 0, streak |-> 0]
    /\ UNCHANGED <<state, storage, entropy, hasCrypto, writable, today, weekKeys, pending, op, arg>>

\* StreakIterate changed to skip a day without an entry (continue) instead of
\* leaving the loop (break).
StreakIterate_SkipGap ==
    /\ pc = "streak:loop"
    /\ IF res.i < StreakCap
       THEN LET key == toKey(SetDate(today, today.date - res.i))
            IN  /\ res' = [i |-> res.i + 1,
                           streak |-> IF Truthy(Get(Get(arg, "log"), key))
                                      THEN res.streak + 1 ELSE res.streak]
                /\ pc' = pc
       ELSE /\ res' = res
            /\ pc' = "streak:done"
    /\ UNCHANGED <<state, storage, entropy, hasCrypto, writable, today, weekKeys, pending, op, arg>>

\* StreakIterate changed to test `i <= 365`.
StreakIterate_OffByOne ==
    /\ pc = "streak:loop"
    /\ IF res.i <= StreakCap
       THEN LET key == toKey(SetDate(today, today.date - res.i))
            IN  IF Truthy(Get(Get(arg, "log"), key))
                THEN /\ res' = [i |-> res.i + 1, streak |-> res.streak + 1]
                     /\ pc' = pc
                ELSE /\ res' = res
                     /\ pc' = "streak:done"
       ELSE /\ res' = res
            /\ pc' = "streak:done"
    /\ UNCHANGED <<state, storage, entropy, hasCrypto, writable, today, weekKeys, pending, op, arg>>

\* One evaluation of `i < 365` and, when it holds, of the loop body.
StreakIterate ==
    /\ pc = "streak:loop"
    /\ IF res.i < StreakCap
       THEN LET key == toKey(SetDate(today, today.date - res.i))
            IN  IF Truthy(Get(Get(arg, "log"), key))
                THEN /\ res' = [i |-> res.i + 1, streak |-> res.streak + 1]
                     /\ pc' = pc
                ELSE /\ res' = res
                     /\ pc' = "streak:done"
       ELSE /\ res' = res
            /\ pc' = "streak:done"
    /\ UNCHANGED <<state, storage, entropy, hasCrypto, writable, today, weekKeys, pending, op, arg>>

NextStreak == StreakEnter \/ StreakIterate

SpecStreak == InitStreak /\ [][NextStreak]_vars

-----------------------------------------------------------------------------
(* The application: page load and the event handlers.                      *)

MaxHabits == 2
MaxDraws == 2
MaxPending == 2

sWalk == <<"W","a","l","k">>
sB == <<"b">>
sGone == <<"g","o","n","e">>
sRandom == <<"r">>

\* The habits of a normalized state, as a sequence.
HabitsOf(v) == v.o["habits"].a

StateOf(habits) == Obj([habits |-> Arr(SeqOf(habits))])

IdsOf(v) == {HabitsOf(v)[i].o["id"].s : i \in 1..Len(HabitsOf(v))}

\* { ...o, [k]: v } and o without k
WithKey(o, k, v) == MapOf([q \in DOMAIN o \cup {k} |-> IF q = k THEN v ELSE o[q]])
WithoutKey(o, k) == MapOf([q \in DOMAIN o \ {k} |-> o[q]])

\* newHabit(name)
newHabit(name, crypto, draw) ==
    Obj([id |-> Str(FreshId(crypto, draw, sRandom)), name |-> Str(name), log |-> EmptyObj])

\* What the item under STORAGE_KEY may hold when the page is opened.
StoredItems ==
    {NoItem, Garbage,
     Stringify(StateOf(<<Entry(Str(sA), Str(sRun), Obj(Day1 :> Bool(TRUE)))>>))}

\* Texts of the files offered to the import.
ImportFiles ==
    {Garbage,
     JsonText(JNull),
     JsonText(JNum(5)),
     JsonText(JObj("name" :> JStr(sRun))),
     JsonText(JObj("habits" :> JStr(sRun))),
     JsonText(JObj("habits" :> JArr(<<JObj("id" :> JObj("toString" :> JNum(1)))>>))),
     JsonText(JObj("habits" :> JArr(<<
         JObj("id" :> JStr(sA) @@ "name" :> JStr(sRun) @@ "log" :> JObj(Day1 :> JBool(TRUE))),
         JObj("id" :> JStr(sA) @@ "name" :> JStr(sWalk) @@ "log" :> JObj(<< >>))>>))),
     JsonText(JObj("habits" :> JArr(<<
         JObj("id" :> JStr(sB) @@ "name" :> JStr(sWalk)
              @@ "log" :> JObj(Day1 :> JBig))>>))),
     JsonText(JObj("habits" :> JArr(<<
         JObj("name" :> JStr(sBlank) @@ "log" :> JArr(<<JBool(TRUE)>>)), JNum(7)>>)))}

\* The names typed into the form.
TypedNames == {sRunPadded, sBlank}

\* The day button clicked: that of the last key of weekKeys.
ClickKeys == {weekKeys[7]}

\* The habit ids a click can carry: those on screen, and one of a row whose
\* habit is no longer in the state.
ClickIds == IdsOf(state) \cup {sGone}

\* Page load: weekKeys = buildWeek(); state = loadState().
Init ==
    /\ today = Today0
    /\ hasCrypto \in BOOLEAN
    /\ writable \in BOOLEAN
    /\ storage \in StoredItems
    /\ weekKeys = buildWeek(today)
    /\ state = loadState(storage, hasCrypto, 0).v
    /\ entropy = IF loadState(storage, hasCrypto, 0).drew THEN 1 ELSE 0
    /\ pending = 0
    /\ op = Outcome("load", "ok", FALSE, "none")
    /\ arg = Undef
    /\ res = Raised
    /\ pc = "app"

\* The effect of a handler whose saveState call had outcome r, `draws`
\* counting the draws of the random source before that call.
Handled(r, draws, name, direct) ==
    /\ state' = r.state
    /\ storage' = r.item
    /\ entropy' = IF r.drew THEN draws + 1 ELSE draws
    /\ op' = Outcome(name, IF r.raised THEN "raised" ELSE "ok", direct, r.err)

\* A handler's saveState(candidate) followed by the rest of the handler:
\* when setItem raises, nothing catches it.
SaveFrom(candidate, name, direct) ==
    Handled(saveState(candidate, state, storage, hasCrypto, entropy, writable),
            entropy, name, direct)

Untouched(name) ==
    /\ op' = Outcome(name, "noop", FALSE, "none")
    /\ UNCHANGED <<state, storage, entropy>>

\* AddHabit changed to put the new habit in front of the old ones.
AddHabit_Prepends ==
    /\ pc = "app"
    /\ \E typed \in TypedNames :
          LET name == Trim(typed)
          IN  IF name = sEmpty THEN Untouched("add")
              ELSE /\ Len(HabitsOf(state)) < MaxHabits
                   /\ entropy < MaxDraws
                   /\ Handled(saveState(StateOf(<<newHabit(name, hasCrypto, entropy)>>
                                                 \o HabitsOf(state)),
                                        state, storage, hasCrypto, entropy + 1, writable),
                              entropy + 1, "add", FALSE)
    /\ UNCHANGED <<hasCrypto, writable, today, weekKeys, pending, arg, res, pc>>

\* events.js, submit of the habit form: a new state object with the old
\* habits and newHabit(name).
AddHabit ==
    /\ pc = "app"
    /\ \E typed \in TypedNames :
          LET name == Trim(typed)
          IN  IF name = sEmpty THEN Untouched("add")
              ELSE /\ Len(HabitsOf(state)) < MaxHabits
                   /\ entropy < MaxDraws
                   /\ Handled(saveState(StateOf(Append(HabitsOf(state),
                                              newHabit(name, hasCrypto, entropy))),
                                        state, storage, hasCrypto, entropy + 1, writable),
                              entropy + 1, "add", FALSE)
    /\ UNCHANGED <<hasCrypto, writable, today, weekKeys, pending, arg, res, pc>>

\* state.habits.push(habit): the state object after the push.
Pushed(habit) == StateOf(Append(HabitsOf(state), habit))

\* Single-file build, submit of the habit form: state.habits.push(newHabit(name))
\* and saveState(state).
AddHabitPush ==
    /\ pc = "app"
    /\ \E typed \in TypedNames :
          LET name == Trim(typed)
          IN  IF name = sEmpty THEN Untouched("add-push")
              ELSE /\ Len(HabitsOf(state)) < MaxHabits
                   /\ entropy < MaxDraws
                   /\ Handled(saveState(Pushed(newHabit(name, hasCrypto, entropy)),
                                        Pushed(newHabit(name, hasCrypto, entropy)),
                                        storage, hasCrypto, entropy + 1, writable),
                              entropy + 1, "add-push", TRUE)
    /\ UNCHANGED <<hasCrypto, writable, today, weekKeys, pending, arg, res, pc>>

\* events.js, click on an element with data-day-key: every habit with the id
\* gets a copy of its log in which log[dayKey] = !log[dayKey].
RowToggle ==
    /\ pc = "app"
    /\ \E habitId \in ClickIds, dayKey \in ClickKeys :
          LET toggled(h) ==
                  IF h.o["id"].s # habitId THEN h
                  ELSE Obj([h.o EXCEPT !["log"] =
                              Obj(WithKey(h.o["log"].o, dayKey,
                                          Bool(~Truthy(Get(h.o["log"], dayKey)))))])
              nextHabits == [i \in 1..Len(HabitsOf(state)) |-> toggled(HabitsOf(state)[i])]
          IN  SaveFrom(StateOf(nextHabits), "row-toggle", FALSE)
    /\ UNCHANGED <<hasCrypto, writable, today, weekKeys, pending, arg, res, pc>>

\* events.js, click on an element with data-action='delete-habit'.
RowDelete ==
    /\ pc = "app"
    /\ \E habitId \in ClickIds, confirmed \in BOOLEAN :
          IF ~confirmed THEN Untouched("row-delete")
          ELSE SaveFrom(StateOf(SelectSeq(HabitsOf(state),
                                          LAMBDA h : h.o["id"].s # habitId)),
                        "row-delete", FALSE)
    /\ UNCHANGED <<hasCrypto, writable, today, weekKeys, pending, arg, res, pc>>

\* render.js and single-file build, toggleLog(habitId, dateKey): the first
\* habit with the id has the key deleted from, or set to true in, its own
\* log; then saveState(state).
toggleLog(habitId, dateKey) ==
    IF habitId \notin IdsOf(state) THEN Untouched("toggle-log")
    ELSE LET at == CHOOSE i \in 1..Len(HabitsOf(state)) :
                       /\ HabitsOf(state)[i].o["id"].s = habitId
                       /\ \A j \in 1..(i - 1) : HabitsOf(state)[j].o["id"].s # habitId
             h == HabitsOf(state)[at]
             log == IF Truthy(Get(h.o["log"], dateKey))
                    THEN WithoutKey(h.o["log"].o, dateKey)
                    ELSE WithKey(h.o["log"].o, dateKey, Bool(TRUE))
             mutated == StateOf([HabitsOf(state) EXCEPT
                                    ![at] = Obj([h.o EXCEPT !["log"] = Obj(log)])])
         IN  SaveFrom(mutated, "toggle-log", TRUE)

\* render.js, onToggleDay: click on a day button.
OnToggleDay ==
    /\ pc = "app"
    /\ \E habitId \in ClickIds, dateKey \in ClickKeys : toggleLog(habitId, dateKey)
    /\ UNCHANGED <<hasCrypto, writable, today, weekKeys, pending, arg, res, pc>>

\* render.js, "Tick today": toggleLog(h.id, todayKey()).
TickToday ==
    /\ pc = "app"
    /\ \E habitId \in ClickIds : toggleLog(habitId, todayKey(today))
    /\ UNCHANGED <<hasCrypto, writable, today, weekKeys, pending, arg, res, pc>>

\* render.js and single-file build, "Delete": state.habits is assigned the
\* filtered list, then saveState(state).
DeleteClick ==
    /\ pc = "app"
    /\ \E habitId \in ClickIds, confirmed \in BOOLEAN :
          IF ~confirmed THEN Untouched("delete")
          ELSE SaveFrom(StateOf(SelectSeq(HabitsOf(state),
                                          LAMBDA h : h.o["id"].s # habitId)),
                        "delete", TRUE)
    /\ UNCHANGED <<hasCrypto, writable, today, weekKeys, pending, arg, res, pc>>

\* What the import's validation lets through.
HabitsIsArray_Skipped(data) == TRUE

\* Import, the validation of the parsed data: Array.isArray(data.habits).
HabitsIsArray(data) == IsArray(Get(data, "habits"))

\* Import, up to `await file.text()`: without a file the handler returns.
ImportChange ==
    /\ pc = "app"
    /\ \E hasFile \in BOOLEAN :
          IF ~hasFile
          THEN /\ op' = Outcome("import", "noop", FALSE, "none")
               /\ pending' = pending
          ELSE /\ pending < MaxPending
               /\ pending' = pending + 1
               /\ op' = Outcome("import", "reading", FALSE, "none")
    /\ UNCHANGED <<state, storage, entropy, hasCrypto, writable, today, weekKeys, arg, res, pc>>

\* Import, the catch block after an exception raised before saveState
\* assigned: alert("Import failed").
ImportFailed(err, text) ==
    /\ op' = ImportOutcome("failed", err, text)
    /\ UNCHANGED <<state, storage, entropy>>

\* Import, from saveState(data) with outcome r on: normalizeState raised
\* (nothing assigned), setItem raised (state assigned), or the import
\* completed; the first two end in the catch block.
ImportSaved(r, text) ==
    /\ r.drew => entropy < MaxDraws
    /\ state' = r.state
    /\ storage' = r.item
    /\ entropy' = IF r.drew THEN entropy + 1 ELSE entropy
    /\ op' = ImportOutcome(IF r.raised THEN "failed" ELSE "ok", r.err, text)

\* ImportResume changed to append the imported habits to those of the
\* current state in place of replacing the state.
ImportResume_Merging ==
    /\ pc = "app"
    /\ pending > 0
    /\ pending' = pending - 1
    /\ \E text \in ImportFiles :
          IF ~Parse(text).ok THEN ImportFailed("syntax", text)
          ELSE IF Parse(text).v.t \in {"null", "undefined"} THEN ImportFailed("type", text)
          ELSE IF ~HabitsIsArray(Parse(text).v) THEN ImportFailed("format", text)
          ELSE ImportSaved(saveState(StateOf(HabitsOf(state) \o Get(Parse(text).v, "habits").a),
                                     state, storage, hasCrypto, entropy, writable), text)
    /\ UNCHANGED <<hasCrypto, writable, today, weekKeys, arg, res, pc>>

\* Import, from the resumption after `await file.text()` (which yields the
\* file's text) to the handler's end: parse, validate, saveState(data);
\* every exception raised in the try block ends in the catch block's
\* "Import failed" alert.
ImportResume ==
    /\ pc = "app"
    /\ pending > 0
    /\ pending' = pending - 1
    /\ \E text \in ImportFiles :
          IF ~Parse(text).ok THEN ImportFailed("syntax", text)
          ELSE IF Parse(text).v.t \in {"null", "undefined"} THEN ImportFailed("type", text)
          ELSE IF ~HabitsIsArray(Parse(text).v) THEN ImportFailed("format", text)
          ELSE ImportSaved(saveState(Parse(text).v, state, storage, hasCrypto,
                                     entropy, writable), text)
    /\ UNCHANGED <<hasCrypto, writable, today, weekKeys, arg, res, pc>>

\* ResetAll changed to go on to saveState({ habits: [] }) when the
\* confirmation was declined.
ResetAll_Ungated ==
    /\ pc = "app"
    /\ \E confirmed \in BOOLEAN :
          IF ~confirmed
          THEN /\ op' = Outcome("reset", "noop", FALSE, "none")
               /\ state' = EmptyState
               /\ storage' = IF writable THEN Stringify(EmptyState) ELSE storage
               /\ entropy' = entropy
          ELSE SaveFrom(StateOf(<< >>), "reset", FALSE)
    /\ UNCHANGED <<hasCrypto, writable, today, weekKeys, pending, arg, res, pc>>

\* events.js, "Reset": saveState({ habits: [] }) after confirmation.
ResetAll ==
    /\ pc = "app"
    /\ \E confirmed \in BOOLEAN :
          IF ~confirmed THEN Untouched("reset")
          ELSE SaveFrom(StateOf(<< >>), "reset", FALSE)
    /\ UNCHANGED <<hasCrypto, writable, today, weekKeys, pending, arg, res, pc>>

\* Single-file build, "Reset": state = { habits: [] }; saveState(state).
ResetAssign ==
    /\ pc = "app"
    /\ \E confirmed \in BOOLEAN :
          IF ~confirmed THEN Untouched("reset-assign")
          ELSE SaveFrom(StateOf(<< >>), "reset-assign", TRUE)
    /\ UNCHANGED <<hasCrypto, writable, today, weekKeys, pending, arg, res, pc>>

Next ==
    \/ AddHabit \/ AddHabitPush
    \/ RowToggle \/ RowDelete
    \/ OnToggleDay \/ TickToday \/ DeleteClick
    \/ ImportChange \/ ImportResume
    \/ ResetAll \/ ResetAssign

Spec == Init /\ [][Next]_vars

-----------------------------------------------------------------------------
(* Claims about the state store *)

\* The input entries normalizeState maps over.
HabitsInputOf(source) ==
    LET raw == IF Truthy(source) /\ IsObjectLike(source) THEN source ELSE EmptyObj
    IN  IF IsArray(Get(raw, "habits")) THEN Get(raw, "habits").a ELSE << >>

WellFormedHabit(h) ==
    /\ h.t = "object"
    /\ DOMAIN h.o = {"id", "name", "log"}
    /\ h.o["id"].t = "string" /\ h.o["id"].s # sEmpty
    /\ h.o["name"].t = "string" /\ h.o["name"].s # sEmpty
    /\ h.o["log"].t = "object"

WellFormedState(v) ==
    /\ v.t = "object"
    /\ DOMAIN v.o = {"habits"}
    /\ v.o["habits"].t = "array"
    /\ \A i \in 1..Len(HabitsOf(v)) : WellFormedHabit(HabitsOf(v)[i])

\* The name is the placeholder exactly when the input name is unusable, and
\* the log is empty when the input log is unusable.
DefaultsApplied(source, v) ==
    LET ins == HabitsInputOf(source)
    IN  /\ Len(HabitsOf(v)) = Len(ins)
        /\ \A i \in 1..Len(ins) :
              LET nameIn == Get(ins[i], "name")
                  logIn == Get(ins[i], "log")
                  out == HabitsOf(v)[i].o
              IN  /\ (nameIn.t # "string" \/ Trim(nameIn.s) = sEmpty)
                        => out["name"].s = sUntitled
                  /\ (logIn.t # "object") => out["log"] = EmptyObj

\* C1: normalizeState returns, for every input, a well-formed state: habits
\* is a sequence, every habit has a non-empty string id, a non-empty name
\* (the placeholder when the input name is unusable) and a plain-mapping log
\* (empty when the input log is unusable); it never raises.
C1_NormalizeTotal ==
    pc = "normalized" =>
        /\ res.ok
        /\ WellFormedState(res.v)
        /\ DefaultsApplied(arg, res.v)

\* What does hold of normalizeState: whenever it returns, the result is well
\* formed and the defaults are applied.
NormalizeWellFormedWhenReturns ==
    (pc = "normalized" /\ res.ok) =>
        (WellFormedState(res.v) /\ DefaultsApplied(arg, res.v))

\* C2: after saveState(x) has returned, loadState() returns a state equal to
\* the one saveState computed, normalizeState(x), now the in-memory state.
C2_RoundTrip ==
    pc = "loaded" => res.v = state

\* An id that normalizeState keeps: truthy, and with a non-empty String().
UsableId(idIn) ==
    Truthy(idIn) /\ ToStringJS(idIn).ok /\ ToStringJS(idIn).v # sEmpty

\* C3: normalizeState(normalizeState(x)) = normalizeState(x) whenever
\* normalizeState(x) returns: the first result is a fixed point (ids, trimmed
\* names, logs, order); and the first pass generates an id only for an entry
\* without a usable id, keeping String(id) otherwise.
C3_Idempotent ==
    /\ pc = "renormalized" => (res.ok /\ res.v = arg)
    /\ (pc = "normalized" /\ res.ok) =>
          \A i \in 1..Len(HabitsInputOf(arg)) :
              LET idIn == Get(HabitsInputOf(arg)[i], "id")
              IN  UsableId(idIn) => HabitsOf(res.v)[i].o["id"].s = ToStringJS(idIn).v

\* C3 witness: a second pass over a state with two habits, one of whose ids
\* was generated by the first pass.
C3_Witness ==
    /\ pc = "renormalized"
    /\ entropy = 1
    /\ Len(HabitsOf(arg)) = 2
    /\ \E i \in 1..2 : HabitsOf(arg)[i].o["id"].s = sA

-----------------------------------------------------------------------------------------------------------------------------------------------------
(* Claims about the application *)

\* The texts C4 speaks of: unparseable, parsed to a value without a habits
\* field, or parsed to a value whose habits field is not an array.
Rejected(text) ==
    LET parsed == Parse(text)
    IN  \/ ~parsed.ok
        \/ parsed.v.t # "object"
        \/ "habits" \notin DOMAIN parsed.v.o
        \/ ~IsArray(parsed.v.o["habits"])

ImportCompletes == op'.name = "import" /\ pending' < pending

\* C4: when an import completes on a text that is unparseable, has no habits
\* field or has a habits field that is not an array, it reports failure and
\* leaves the in-memory state and the stored item as they were.
C4_ImportRejection ==
    [][(ImportCompletes /\ Rejected(op'.file))
         => (op'.result = "failed" /\ state' = state /\ storage' = storage)]_vars

\* An import of a text whose habits field is not an array has failed while
\* the state held habits and the storage held their serialization.
C4_Witness ==
    /\ op.name = "import" /\ op.result = "failed" /\ op.err = "format"
    /\ Rejected(op.file)
    /\ Len(HabitsOf(state)) > 0
    /\ storage = Stringify(state)

LogOf(i) == HabitsOf(state)[i].o["log"]

\* C7: in every reachable state every habit's log is a plain mapping whose
\* entries are all truthy.
C7_LogEntriesTruthy ==
    \A i \in 1..Len(HabitsOf(state)) :
        /\ LogOf(i).t = "object"
        /\ \A k \in DOMAIN LogOf(i).o : Truthy(LogOf(i).o[k])

\* C8: in every reachable state the ids of the habits are pairwise distinct.
C8_IdsDistinct ==
    \A i, j \in 1..Len(HabitsOf(state)) :
        i # j => HabitsOf(state)[i].o["id"] # HabitsOf(state)[j].o["id"]

\* C9: no handler writes to the current state object, its habits or their
\* logs outside saveState.
C9_OnlySaveStateMutates == op.direct = FALSE

\* C10: after every completed action that saved, the stored item is the
\* serialization of the in-memory state and a load would return that state.
C10_MemoryStorageInSync ==
    (op.result = "ok" /\ op.name # "load")
        => /\ storage = Stringify(state)
           /\ loadState(storage, hasCrypto, entropy).v = state

-----
(* Claims about computeStreak *)

\* The date key of the day j days before `now`.
DayKey(now, j) == toKey(DateOfDay(MakeDay(now.year, now.month, now.date) - j))

\* Whether the habit held in arg has a truthy log entry for day today-j.
Completed(j) == Truthy(Get(Get(arg, "log"), DayKey(today, j)))

\* C5: computeStreak returns the number n of consecutive days today,
\* today-1, ..., today-(n-1) with a truthy log entry, day today-n being the
\* first absent or falsy one; 0 when today's entry is absent or falsy; 0 for
\* a null habit or a habit without a log.
C5_StreakCorrect ==
    pc = "streak:done" =>
        /\ \A j \in 0..(res.streak - 1) : Completed(j)
        /\ ~Completed(res.streak)
        /\ ~Completed(0) => res.streak = 0
        /\ (~Truthy(arg) \/ ~Truthy(Get(arg, "log"))) => res.streak = 0

\* C5 as amended: the same, except that the count stops at 365: the result
\* is 365 when all of today, ..., today-364 have a truthy entry, whatever
\* the entry of day today-365.
C5_StreakCorrectCapped ==
    pc = "streak:done" =>
        /\ \A j \in 0..(res.streak - 1) : Completed(j)
        /\ res.streak = StreakCap \/ ~Completed(res.streak)
        /\ ~Completed(0) => res.streak = 0
        /\ (~Truthy(arg) \/ ~Truthy(Get(arg, "log"))) => res.streak = 0

\* C5 witness: a streak of 2 that stopped at a falsy entry for today-2, with
\* a completed day today-3 behind the gap.
C5_Witness ==
    /\ pc = "streak:done"
    /\ res.streak = 2
    /\ Get(Get(arg, "log"), DayKey(today, 2)) = Bool(FALSE)
    /\ Completed(3)

\* C6: computeStreak examines at most 365 days, its result is an integer in
\* 0..365, and a log in which each of the last 365 days or more, ending
\* today, is marked yields exactly 365.
C6_StreakBound ==
    /\ res.i \in 0..StreakCap
    /\ res.streak \in 0..StreakCap
    /\ (pc = "streak:done" /\ \A j \in 0..(StreakCap - 1) : Completed(j))
          => res.streak = StreakCap

\* C6 witness: 400 marked days ending today give 365.
C6_Witness ==
    /\ pc = "streak:done"
    /\ res.streak = StreakCap
    /\ \A j \in 0..(MaxRun - 1) : Completed(j)

-----------------------------------------------------------------------------
(* Claims about loadState *)

\* C11: loadState returns a value in every case and leaves the stored item
\* alone; the value is the empty-habits state when there is no item or the
\* item is not JSON, the result of normalizeState on the parsed value when
\* that returns, hence the empty-habits state when the parsed value has no
\* array under habits.
C11_LoadNeverFails ==
    [][(pc = "load:entry" /\ pc' = "load:done")
         => /\ res'.ok
            /\ state' = res'.v
            /\ storage' = storage
            /\ (storage.x # "json" => res'.v = EmptyState)
            /\ (storage.x = "json"
                  /\ normalizeState(Parse(storage).v, hasCrypto, entropy).ok
                  => res'.v = normalizeState(Parse(storage).v, hasCrypto, entropy).v)
            /\ (storage.x = "json" /\ ~IsArray(Get(Parse(storage).v, "habits"))
                  => res'.v = EmptyState)]_vars

\* A stored JSON text with habits has been loaded.
C11_Witness ==
    /\ pc = "load:done"
    /\ storage.x = "json"
    /\ res.ok /\ res.v # EmptyState
    /\ Len(HabitsOf(res.v)) > 0

-----------------------------------------------------------------------------
(* Claims about the handlers *)

\* C12: a handler that ends in failure (an uncaught exception, or the
\* import's "Import failed") leaves the in-memory state as it was before.
C12_AllOrNothing ==
    [][op'.result \in {"failed", "raised"} => state' = state]_vars

\* The imports C13 speaks of: the text parses to a value with an array under
\* habits that normalizeState accepts.
ValidImport(text) ==
    /\ ~Rejected(text)
    /\ normalizeState(Parse(text).v, hasCrypto, entropy).ok

EntryOf(h, k) == Get(h.o["log"], k)

\* Habit after differs from habit before in nothing but the completion of
\* day d, which is flipped.
OnlyDayFlipped(before, after, d) ==
    /\ after.o["id"] = before.o["id"]
    /\ after.o["name"] = before.o["name"]
    /\ after.o["log"].t = "object"
    /\ \A k \in (DOMAIN before.o["log"].o \cup DOMAIN after.o["log"].o) \ {d} :
           /\ k \in DOMAIN before.o["log"].o
           /\ k \in DOMAIN after.o["log"].o
           /\ EntryOf(after, k) = EntryOf(before, k)
    /\ Truthy(EntryOf(after, d)) = ~Truthy(EntryOf(before, d))

\* The step is a toggle of day d of habit id h as C14 describes it.
ToggleFrame(h, d) ==
    IF h \notin IdsOf(state) THEN state' = state
    ELSE /\ Len(HabitsOf(state')) = Len(HabitsOf(state))
         /\ \E i \in 1..Len(HabitsOf(state)) :
               /\ HabitsOf(state)[i].o["id"].s = h
               /\ OnlyDayFlipped(HabitsOf(state)[i], HabitsOf(state')[i], d)
               /\ \A j \in 1..Len(HabitsOf(state)) :
                      j # i => HabitsOf(state')[j] = HabitsOf(state)[j]

ToggleStep == op'.name \in {"row-toggle", "toggle-log"}

\* C14: a toggle changes only the completion of the clicked day in the log
\* of the one habit with the clicked id, and nothing when no habit has it.
C14_ToggleFrame ==
    [][ToggleStep => \E h \in ClickIds, d \in ClickKeys : ToggleFrame(h, d)]_vars

\* What holds of every toggle on a state whose ids are pairwise distinct.
ToggleFrameWhenIdsDistinct ==
    [][(ToggleStep /\ C8_IdsDistinct)
         => \E h \in ClickIds, d \in ClickKeys : ToggleFrame(h, d)]_vars

DeleteStep == op'.name \in {"row-delete", "delete"}
ResetStep == op'.name \in {"reset", "reset-assign"}

\* A delete or reset whose confirmation was declined ("noop": the handler
\* returned before saveState).
Declined == (DeleteStep \/ ResetStep) /\ op'.result = "noop"

-----------------------------------------------------------------------------
(* The handlers and computeStreak as functions of the state, for claims    *)
(* about sequences of clicks.                                              *)

\* The index of the first habit of s with the id: state.habits.find(...)
FirstWithId(s, habitId) ==
    CHOOSE i \in 1..Len(HabitsOf(s)) :
        /\ HabitsOf(s)[i].o["id"].s = habitId
        /\ \A j \in 1..(i - 1) : HabitsOf(s)[j].o["id"].s # habitId

\* Habit h with its log replaced.
WithLog(h, log) == Obj([h.o EXCEPT !["log"] = Obj(log)])

\* render.js toggleLog, the log after `delete h.log[dateKey]` or
\* `h.log[dateKey] = true`.
LogToggled(h, dateKey) ==
    IF Truthy(EntryOf(h, dateKey)) THEN WithoutKey(h.o["log"].o, dateKey)
    ELSE WithKey(h.o["log"].o, dateKey, Bool(TRUE))

\* The state after render.js toggleLog(habitId, dateKey) on state s.
ToggledLog(s, habitId, dateKey) ==
    IF habitId \notin IdsOf(s) THEN s
    ELSE normalizeState(
             StateOf([HabitsOf(s) EXCEPT ![FirstWithId(s, habitId)] =
                         WithLog(@, LogToggled(@, dateKey))]),
             TRUE, 0).v

\* events.js, the habit the map callback returns for a click on dayKey of
\* habitId.
RowToggledHabit(h, habitId, dayKey) ==
    IF h.o["id"].s # habitId THEN h
    ELSE WithLog(h, WithKey(h.o["log"].o, dayKey, Bool(~Truthy(EntryOf(h, dayKey)))))

\* The state after the events.js click on day dayKey of habitId on state s.
RowToggled(s, habitId, dayKey) ==
    normalizeState(
        StateOf([i \in 1..Len(HabitsOf(s)) |->
                    RowToggledHabit(HabitsOf(s)[i], habitId, dayKey)]),
        TRUE, 0).v

\* computeStreak(habit) on date `now`, from loop index i on: the number of
\* iterations that increment streak before the loop ends.
RECURSIVE StreakFrom(_, _, _)
StreakFrom(habit, now, i) ==
    IF i < StreakCap /\ Truthy(Get(Get(habit, "log"), toKey(SetDate(now, now.date - i))))
    THEN 1 + StreakFrom(habit, now, i + 1)
    ELSE 0

computeStreak(habit, now) ==
    IF ~Truthy(habit) \/ ~Truthy(Get(habit, "log")) THEN 0
    ELSE StreakFrom(habit, now, 0)

\* The state after the add form's submit of a name that is not blank.
Added(s, name, crypto, draw) ==
    normalizeState(StateOf(Append(HabitsOf(s), newHabit(name, crypto, draw))),
                   crypto, draw + 1).v

\* Deleted changed to drop the first habit, whatever its id.
Deleted_DropsFirst(s, habitId) ==
    normalizeState(StateOf(IF HabitsOf(s) = << >> THEN << >> ELSE Tail(HabitsOf(s))),
                   TRUE, 0).v

\* The state after a confirmed delete of habitId.
Deleted(s, habitId) ==
    normalizeState(StateOf(SelectSeq(HabitsOf(s), LAMBDA h : h.o["id"].s # habitId)),
                   TRUE, 0).v

-----------------------------------------------------------------------------
(* Two clicks on the same day button, on the states the handlers can       *)
(* leave behind (logs with true, false and non-finite entries, habits that *)
(* share an id).  arg holds the click and the state before it.             *)

ClickLogs ==
    {Obj(MapOf(f)) : f \in UNION {[K -> {Bool(TRUE), Bool(FALSE), Infinity}] :
                                     K \in SUBSET {Day1, Day0}}}

ClickHabits == {Entry(Str(i), Str(sRun), l) : i \in {sA, sB}, l \in ClickLogs}

ClickStates == {StateOf(a) : a \in SeqsUpTo(ClickHabits, MaxHabits)}

InitClicks ==
    /\ state \in ClickStates
    /\ \E habitId \in IdsOf(state) \cup {sGone}, dayKey \in {Day1, Day0},
          via \in {"events.js", "render.js"} :
          arg = [habitId |-> habitId, dayKey |-> dayKey, via |-> via, before |-> state]
    /\ today = Today0
    /\ weekKeys = buildWeek(Today0)
    /\ hasCrypto = TRUE
    /\ writable = TRUE
    /\ storage = Stringify(state)
    /\ entropy = 0
    /\ pending = 0
    /\ op = NoOp
    /\ res = Raised
    /\ pc = "clicks:0"

\* One click on the day button: the handler of the build in use runs.
Click ==
    /\ pc \in {"clicks:0", "clicks:1"}
    /\ state' = IF arg.via = "events.js" THEN RowToggled(state, arg.habitId, arg.dayKey)
                ELSE ToggledLog(state, arg.habitId, arg.dayKey)
    /\ storage' = Stringify(state')
    /\ pc' = IF pc = "clicks:0" THEN "clicks:1" ELSE "clicks:2"
    /\ UNCHANGED <<entropy, hasCrypto, writable, today, weekKeys, pending, op, arg, res>>

\* A confirmed click on the row's Delete button.
ConfirmedDelete ==
    /\ pc = "clicks:0"
    /\ state' = Deleted(state, arg.habitId)
    /\ storage' = Stringify(state')
    /\ pc' = "clicks:deleted"
    /\ UNCHANGED <<entropy, hasCrypto, writable, today, weekKeys, pending, op, arg, res>>

NextClicks == Click \/ ConfirmedDelete

SpecClicks == InitClicks /\ [][NextClicks]_vars

-----------------------------------------------------------------------------
(* Claims about sequences of clicks *)

\* The two states have the same habits with the same completion status on
\* every day.
SameCompletion(s1, s2) ==
    /\ Len(HabitsOf(s1)) = Len(HabitsOf(s2))
    /\ \A i \in 1..Len(HabitsOf(s1)) :
          /\ HabitsOf(s1)[i].o["id"] = HabitsOf(s2)[i].o["id"]
          /\ \A k \in DOMAIN HabitsOf(s1)[i].o["log"].o
                       \cup DOMAIN HabitsOf(s2)[i].o["log"].o :
                 Truthy(EntryOf(HabitsOf(s1)[i], k)) = Truthy(EntryOf(HabitsOf(s2)[i], k))

YesterdayKey == toKey(SetDate(today, today.date - 1))

\* The habits of the state before the clicks that the click was made on
\* and whose today was not completed.
ClickedOpenToday ==
    {i \in 1..Len(HabitsOf(arg.before)) :
        /\ HabitsOf(arg.before)[i].o["id"].s = arg.habitId
        /\ ~Truthy(EntryOf(HabitsOf(arg.before)[i], todayKey(today)))}

\* empty -> add -> toggle today on (streak 1) -> toggle today off (streak 0)
\* -> confirmed delete -> empty, with the handlers of either build.
ScenarioEndsEmpty ==
    \A crypto \in BOOLEAN :
        LET added == Added(EmptyState, sRun, crypto, 0)
            id == HabitsOf(added)[1].o["id"].s
            on1 == ToggledLog(added, id, todayKey(today))
            off1 == ToggledLog(on1, id, todayKey(today))
            on2 == RowToggled(added, id, todayKey(today))
            off2 == RowToggled(on2, id, todayKey(today))
        IN  /\ computeStreak(HabitsOf(on1)[1], today) = 1
            /\ computeStreak(HabitsOf(off1)[1], today) = 0
            /\ Deleted(off1, id) = EmptyState
            /\ computeStreak(HabitsOf(on2)[1], today) = 1
            /\ computeStreak(HabitsOf(off2)[1], today) = 0
            /\ Deleted(off2, id) = EmptyState

\* C16: two toggles of the same day restore every completion status; a
\* toggle of today on a habit whose today is open makes its streak at least
\* 1 (exactly 1 when yesterday is open) and the second toggle makes it 0;
\* and the add, on, off, delete scenario ends with no habits.
C16_ToggleInvolution ==
    /\ pc = "clicks:2" => SameCompletion(arg.before, state)
    /\ (pc = "clicks:1" /\ arg.dayKey = todayKey(today))
         => \A i \in ClickedOpenToday :
               /\ computeStreak(HabitsOf(state)[i], today) >= 1
               /\ ~Truthy(EntryOf(HabitsOf(arg.before)[i], YesterdayKey))
                     => computeStreak(HabitsOf(state)[i], today) = 1
    /\ (pc = "clicks:2" /\ arg.dayKey = todayKey(today))
         => \A i \in ClickedOpenToday : computeStreak(HabitsOf(state)[i], today) = 0
    /\ ScenarioEndsEmpty

\* What holds of two clicks on a state whose ids are pairwise distinct.
ToggleInvolutionWhenIdsDistinct ==
    (\A i, j \in 1..Len(HabitsOf(arg.before)) :
        i # j => HabitsOf(arg.before)[i].o["id"] # HabitsOf(arg.before)[j].o["id"])
      => C16_ToggleInvolution

\* computeStreak as a function agrees with its loop, step by step, on the
\* habits whose loop ends within ten iterations.
StreakFunctionAgrees ==
    (pc = "streak:done" /\ res.i <= 10) => res.streak = computeStreak(arg, today)

\* The handlers as functions agree with the handlers' steps.
ToggleFunctionsAgree ==
    [][/\ op'.name = "row-toggle"
            => \E h \in ClickIds, d \in ClickKeys : state' = RowToggled(state, h, d)
       /\ op'.name = "toggle-log"
            => \E h \in ClickIds, d \in ClickKeys : state' = ToggledLog(state, h, d)]_vars

\* C17: after a confirmed delete of habit id h no habit has id h, and the
\* habits of the state are the habits with another id, with their names
\* and logs, in their previous order.
C17_DeleteFrame ==
    pc = "clicks:deleted"
      => /\ arg.habitId \notin IdsOf(state)
         /\ HabitsOf(state)
              = SelectSeq(HabitsOf(arg.before), LAMBDA h : h.o["id"].s # arg.habitId)

\* The second of two habits has been deleted.
C17_Witness ==
    /\ pc = "clicks:deleted"
    /\ Len(HabitsOf(arg.before)) = 2
    /\ HabitsOf(arg.before)[2].o["id"].s = arg.habitId
    /\ HabitsOf(state) = <<HabitsOf(arg.before)[1]>>

\* The delete as a function agrees with the delete handlers' steps.
DeleteFunctionAgrees ==
    [][(DeleteStep /\ op'.result # "noop")
         => \E h \in ClickIds : state' = Deleted(state, h)]_vars

AddStep == op'.name \in {"add", "add-push"}

\* The names the form can hand to newHabit: typed names, trimmed, not blank.
SubmittedNames == {Trim(typed) : typed \in TypedNames} \ {sEmpty}

\* C18: a submit that returns early (blank name) leaves state and storage
\* unchanged; any other submit yields the previous habits, unchanged and in
\* order, followed by one habit with the trimmed name, an empty log and an
\* id that no previous habit has.
C18_AddAppends ==
    [][AddStep =>
         IF op'.result = "noop" THEN state' = state /\ storage' = storage
         ELSE /\ Len(HabitsOf(state')) = Len(HabitsOf(state)) + 1
              /\ SubSeq(HabitsOf(state'), 1, Len(HabitsOf(state))) = HabitsOf(state)
              /\ LET added == HabitsOf(state')[Len(HabitsOf(state'))]
                 IN  /\ added.o["name"].s \in SubmittedNames
                     /\ added.o["log"] = EmptyObj
                     /\ added.o["id"].s # sEmpty
                     /\ added.o["id"].s \notin IdsOf(state)]_vars

\* A second habit has been added behind the first.
C18_Witness ==
    /\ op.name = "add" /\ op.result = "ok"
    /\ Len(HabitsOf(state)) = 2
    /\ HabitsOf(state)[2].o["name"].s = sRun
    /\ HabitsOf(state)[2].o["log"] = EmptyObj
    /\ HabitsOf(state)[1].o["id"] # HabitsOf(state)[2].o["id"]

-----------------------------------------------------------------------------
(* Claims about normalizeState's mapping *)

IsPrimitiveOrNull(e) == e.t \notin {"object", "array"}

\* C19: when normalizeState returns, its output has one habit per entry of
\* the input array, in the same order, habit i being what the map callback
\* makes of entry i alone; an entry that is null or a primitive becomes a
\* habit with a generated id, the name "Untitled habit" and an empty log.
C19_OneToOne ==
    (pc = "normalized" /\ res.ok)
      => /\ Len(HabitsOf(res.v)) = Len(HabitsInputOf(arg))
         /\ \A i \in 1..Len(HabitsInputOf(arg)) :
               /\ HabitsOf(res.v)[i]
                    = NormalizeHabit(HabitsInputOf(arg)[i], i - 1, hasCrypto, 0).v
               /\ IsPrimitiveOrNull(HabitsInputOf(arg)[i])
                    => /\ HabitsOf(res.v)[i].o["id"].s
                            = FreshId(hasCrypto, 0, Digits(i - 1))
                       /\ HabitsOf(res.v)[i].o["name"].s = sUntitled
                       /\ HabitsOf(res.v)[i].o["log"] = EmptyObj

\* An array of a null and a number has been normalized to two habits.
C19_Witness ==
    /\ pc = "normalized" /\ res.ok
    /\ HabitsInputOf(arg) = <<Null, Num(7)>>
    /\ Len(HabitsOf(res.v)) = 2
    /\ HabitsOf(res.v)[1].o["id"] # HabitsOf(res.v)[2].o["id"]

-----------------------------------------------------------------------------
(* The page kept open over midnights.  The module-level weekKeys is         *)
(* assigned once, when state.js is evaluated; refreshWeekKeys, its only    *)
(* other assignment, has no caller.  new Date() is read afresh by          *)
(* todayKey() and computeStreak() on every call.  arg is the date of the   *)
(* page load, res the streaks shown by the last render.                    *)

MaxDaysOpen == 2

LoadDates == {Today0, DateOf(2026, 11, 31), DateOf(2024, 1, 28), DateOf(2026, 2, 1)}

WeekStates ==
    {StateOf(a) : a \in SeqsUpTo({Entry(Str(i), Str(sRun), EmptyObj) : i \in {sA, sB}},
                                 MaxHabits)}

\* render(): the streak shown in each row, computeStreak(h) on date `now`.
RenderedStreaks(s, now) ==
    Ok(Arr(SeqOf([i \in 1..Len(HabitsOf(s)) |->
                    Num(computeStreak(HabitsOf(s)[i], now))])))

InitWeek ==
    /\ today \in LoadDates
    /\ arg = today
    /\ weekKeys = buildWeek(today)
    /\ state \in WeekStates
    /\ storage = Stringify(state)
    /\ res = RenderedStreaks(state, today)
    /\ hasCrypto = TRUE
    /\ writable = TRUE
    /\ entropy = 0
    /\ pending = 0
    /\ op = NoOp
    /\ pc = "week"

\* The local date advances while the page stays open: no code runs.
DayPasses ==
    /\ pc = "week"
    /\ MakeDay(today.year, today.month, today.date)
          < MakeDay(arg.year, arg.month, arg.date) + MaxDaysOpen
    /\ today' = SetDate(today, today.date + 1)
    /\ UNCHANGED <<state, storage, entropy, hasCrypto, writable, weekKeys, pending,
                   op, arg, res, pc>>

\* "Tick today": toggleLog(h.id, todayKey()), which saves and renders.
WeekTick ==
    /\ pc = "week"
    /\ \E habitId \in IdsOf(state) :
          state' = ToggledLog(state, habitId, todayKey(today))
    /\ storage' = Stringify(state')
    /\ res' = RenderedStreaks(state', today)
    /\ UNCHANGED <<entropy, hasCrypto, writable, today, weekKeys, pending, op, arg, pc>>

\* A click on the last day button of a row, whose data-day is the last
\* element of weekKeys; the handler saves and renders.
WeekLastDayClick ==
    /\ pc = "week"
    /\ \E habitId \in IdsOf(state) :
          state' = RowToggled(state, habitId, weekKeys[7])
    /\ storage' = Stringify(state')
    /\ res' = RenderedStreaks(state', today)
    /\ UNCHANGED <<entropy, hasCrypto, writable, today, weekKeys, pending, op, arg, pc>>

NextWeek == DayPasses \/ WeekTick \/ WeekLastDayClick

SpecWeek == InitWeek /\ [][NextWeek]_vars

-----------------------------------------------------------------------------
(* Claims about the displayed week *)

\* The key of the day k days before today, by day number.
KeyOfDaysAgo(k) ==
    toKey(DateOfDay(MakeDay(today.year, today.month, today.date) - k))

\* C20: in every state in which a toggle, a "Tick today" or a streak
\* computation can run, also after the local date has advanced with the
\* page open, weekKeys is the seven consecutive date keys today-6 .. today,
\* oldest first, so that its last element is the key "Tick today" toggles.
C20_WeekEndsToday ==
    pc = "week"
      => /\ Len(weekKeys) = 7
         /\ \A n \in 1..7 : weekKeys[n] = KeyOfDaysAgo(7 - n)
         /\ weekKeys[7] = todayKey(today)

\* What the code keeps: weekKeys is the week that ends on the day of the
\* page load, and so ends today for as long as the date has not advanced.
WeekEndsOnLoadDay ==
    pc = "week"
      => /\ Len(weekKeys) = 7
         /\ \A n \in 1..7 :
               weekKeys[n]
                 = toKey(DateOfDay(MakeDay(arg.year, arg.month, arg.date) - (7 - n)))
         /\ today = arg => weekKeys[7] = todayKey(today)

\* After a midnight, "Tick today" has completed a day that is not in the
\* displayed week, and the streak shown counts it.
TickedOutsideWeek ==
    /\ pc = "week"
    /\ today # arg
    /\ \E i \in 1..Len(HabitsOf(state)) :
          /\ Truthy(EntryOf(HabitsOf(state)[i], todayKey(today)))
          /\ \A n \in 1..7 : weekKeys[n] # todayKey(today)
          /\ res.v.a[i] = Num(1)

-----------------------------------------------------------------------------
(* Claims about the two toggle implementations *)

\* C21: for every reachable state, habit id and day key, the row-click
\* toggle of events.js and toggleLog of the render module produce states
\* with the same habits in the same order and the same set of completed
\* days for every habit.
C21_TogglesAgree ==
    pc = "app"
      => \A habitId \in ClickIds, dayKey \in ClickKeys :
            SameCompletion(RowToggled(state, habitId, dayKey),
                           ToggledLog(state, habitId, dayKey))

\* What holds: the two agree on every reachable state whose ids are
\* pairwise distinct.
TogglesAgreeWhenIdsDistinct == C8_IdsDistinct => C21_TogglesAgree

\* A state with two habits of one id on which the two toggles differ in the
\* second habit: events.js flips it, toggleLog leaves it alone.
TogglesDifferOnSecond ==
    /\ pc = "app"
    /\ Len(HabitsOf(state)) = 2
    /\ HabitsOf(state)[1].o["id"] = HabitsOf(state)[2].o["id"]
    /\ \E dayKey \in ClickKeys :
          /\ HabitsOf(ToggledLog(state, HabitsOf(state)[1].o["id"].s, dayKey))[2]
                = HabitsOf(state)[2]
          /\ Truthy(EntryOf(HabitsOf(RowToggled(state, HabitsOf(state)[1].o["id"].s,
                                                dayKey))[2], dayKey))
                # Truthy(EntryOf(HabitsOf(state)[2], dayKey))

====
